---- MODULE Spec2Model ----
(***************************************************************************)
(* Model of the football feature pipeline of Fbref_alex/fonctions_preprocess *)
(* (preprocess, preparation_model) and of the standings merge script        *)
(* dataframe_final.py.                                                      *)
(*                                                                          *)
(* A DataFrame is a sequence of records (one record per row, one field per  *)
(* column, in row order).  A missing value (NaN) is the empty tuple and a   *)
(* present value of a nullable column is a 1-tuple, so that both compare.   *)
(* A timestamp is <<year, month>>, a season label "y-(y+1)" is <<y, y+1>>,  *)
(* a round label is a sequence of tokens (words, blanks, single digits).    *)
(***************************************************************************)
EXTENDS Integers, Sequences, FiniteSets, TLC

VARIABLES scenario, raw, df, pc, dataframe_final, dataframe_classement, merge_pc

vars == <<scenario, raw, df, pc, dataframe_final, dataframe_classement, merge_pc>>

(***************************************************************************)
(* Bounds of the model.                                                     *)
(***************************************************************************)
MaxRows == 3
MaxMatchRows == 2
MaxStandingRows == 2

(***************************************************************************)
(* Values.                                                                  *)
(***************************************************************************)
NaN == <<>>

Num(x) == <<x>>

IsNaN(v) == v = NaN

Val(v) == v[1]

RECURSIVE SumSet(_, _)
SumSet(S, f) ==
    IF S = {} THEN 0
    ELSE LET x == CHOOSE y \in S : TRUE
         IN  f[x] + SumSet(S \ {x}, f)

Min(S) == CHOOSE x \in S : \A y \in S : x <= y

Max(S) == CHOOSE x \in S : \A y \in S : x >= y

\* Lexicographic order of the team names that occur (Python str comparison).
NameOrder == <<"Lyon", "Marseille", "PSG", "Paris SG">>

StrLt(a, b) ==
    (CHOOSE i \in 1..Len(NameOrder) : NameOrder[i] = a)
        < (CHOOSE i \in 1..Len(NameOrder) : NameOrder[i] = b)

\* Season labels are compared as strings: "2020-2021" < "2021-2022".
SaisonLt(a, b) == a[1] < b[1]

DateTimeLt(a, b) == a[1] < b[1] \/ (a[1] = b[1] /\ a[2] < b[2])

(***************************************************************************)
(* Stable multi-column sort (DataFrame.sort_values with a list of columns   *)
(* is a lexsort, which is stable): lt[i][j] says that row i sorts strictly  *)
(* before row j; rows that compare equal keep their relative order.         *)
(***************************************************************************)
\* The rows of a table, computed once.
Table(f) == f \o <<>>

SortPos(t, lt, i) ==
    1 + Cardinality({j \in DOMAIN t :
                        j # i /\ (lt[j][i] \/ (~lt[i][j] /\ j < i))})

StableSort(t, lt) ==
    LET pos == Table([i \in DOMAIN t |-> SortPos(t, lt, i)])
    IN  Table([k \in DOMAIN t |-> t[CHOOSE i \in DOMAIN t : pos[i] = k]])

(***************************************************************************)
(* preprocess: normalisation.                                               *)
(***************************************************************************)
\* The team-name dictionary handed to preprocess (entries of the glossary).
mapping_equipe == [n \in {"Paris SG"} |-> "PSG"]

\* Series.map(mapping_equipe).fillna(original)
MapName(n) == IF n \in DOMAIN mapping_equipe THEN mapping_equipe[n] ELSE n

NormaliseNames(t) ==
    Table([i \in DOMAIN t |->
            [t[i] EXCEPT !.Opponent = MapName(@), !.equipe = MapName(@)]])

IsLigue1(r) == r.Comp = "Ligue 1"

KeepLigue1(t) == SelectSeq(t, IsLigue1)

DigitChars == <<"0", "1", "2", "3", "4", "5", "6", "7", "8", "9">>

IsDigit(c) == c \in {DigitChars[k] : k \in DOMAIN DigitChars}

DigitValue(c) == (CHOOSE k \in 1..Len(DigitChars) : DigitChars[k] = c) - 1

RECURSIVE DigitsToInt(_)
DigitsToInt(s) ==
    IF s = <<>> THEN 0
    ELSE 10 * DigitsToInt(SubSeq(s, 1, Len(s) - 1)) + DigitValue(s[Len(s)])

\* str.extract(r'(\d+)').astype(int): the leftmost maximal run of digits.
ExtractRound(label) ==
    LET first == Min({i \in 1..Len(label) : IsDigit(label[i])})
        last  == Max({k \in first..Len(label) :
                        \A m \in first..k : IsDigit(label[m])})
    IN  DigitsToInt(SubSeq(label, first, last))

\* f"{year}-{year+1}" if month >= 8 else f"{year-1}-{year}"
SaisonOf(dt) ==
    IF dt[2] >= 8 THEN <<dt[1], dt[1] + 1>> ELSE <<dt[1] - 1, dt[1]>>

\* Faulty variant: an unknown result counts as zero points.
PointsOfZeroDefault(result) ==
    CASE result = "W" -> Num(3)
      [] result = "D" -> Num(1)
      [] OTHER        -> Num(0)

\* Result.map({'W': 3, 'D': 1, 'L': 0}): any other value maps to NaN.
PointsOf(result) ==
    CASE result = "W" -> Num(3)
      [] result = "D" -> Num(1)
      [] result = "L" -> Num(0)
      [] OTHER        -> NaN

AddDerived(t) ==
    Table([i \in DOMAIN t |->
            [t[i] EXCEPT !.Round = ExtractRound(@)]
                @@ [Saison |-> SaisonOf(t[i].DateTime),
                    GD     |-> t[i].GF - t[i].GA,
                    Points |-> PointsOf(t[i].Result)]])

(***************************************************************************)
(* preprocess: cumulative standings.                                        *)
(***************************************************************************)
LessSaisonRoundEquipe(a, b) ==
    \/ SaisonLt(a.Saison, b.Saison)
    \/ a.Saison = b.Saison /\ a.Round < b.Round
    \/ a.Saison = b.Saison /\ a.Round = b.Round /\ StrLt(a.equipe, b.equipe)

SortSaisonRoundEquipe(t) ==
    StableSort(t, [i \in DOMAIN t |-> [j \in DOMAIN t |->
                        LessSaisonRoundEquipe(t[i], t[j])]])

\* cumsum of a column without missing values over the rows g.
CumSum(t, g, col) == SumSet(g, [j \in DOMAIN t |-> t[j][col]])

\* cumsum of a nullable column at row i over the rows g of its group up to
\* i: a missing value stays missing and is skipped by the rows after it.
CumSumNullable(t, g, i, col) ==
    IF IsNaN(t[i][col]) THEN NaN
    ELSE Num(SumSet({j \in g : ~IsNaN(t[j][col])},
                    [j \in DOMAIN t |->
                        IF IsNaN(t[j][col]) THEN 0 ELSE Val(t[j][col])]))

\* Faulty variant: the cumulative sums run over a team's whole history.
CumGroupByEquipe(a, b) == a.equipe = b.equipe

\* groupby(['Saison', 'equipe']) of the cumulative sums.
CumGroup(a, b) == a.Saison = b.Saison /\ a.equipe = b.equipe

\* Rows of the group of row i up to and including row i, in table order.
CumGroupUpTo(t, i) == {j \in 1..i : CumGroup(t[j], t[i])}

AddCumulative(t) ==
    Table([i \in DOMAIN t |->
            t[i] @@ [Points_Cum |->
                         CumSumNullable(t, CumGroupUpTo(t, i), i, "Points"),
                     GD_Cum |-> CumSum(t, CumGroupUpTo(t, i), "GD"),
                     GF_Cum |-> CumSum(t, CumGroupUpTo(t, i), "GF"),
                     GA_Cum |-> CumSum(t, CumGroupUpTo(t, i), "GA")]])

\* Descending order of a nullable column: missing values sort last.
DescNullable(x, y) == ~IsNaN(x) /\ (IsNaN(y) \/ Val(x) > Val(y))

\* Faulty variant: the ranking sort in ascending order of points and goals.
LessRankingAscending(a, b) ==
    \/ SaisonLt(a.Saison, b.Saison)
    \/ a.Saison = b.Saison /\ a.Round < b.Round
    \/ a.Saison = b.Saison /\ a.Round = b.Round
        /\ DescNullable(b.Points_Cum, a.Points_Cum)
    \/ a.Saison = b.Saison /\ a.Round = b.Round
        /\ a.Points_Cum = b.Points_Cum /\ a.GD_Cum < b.GD_Cum

LessRanking(a, b) ==
    \/ SaisonLt(a.Saison, b.Saison)
    \/ a.Saison = b.Saison /\ a.Round < b.Round
    \/ a.Saison = b.Saison /\ a.Round = b.Round
        /\ DescNullable(a.Points_Cum, b.Points_Cum)
    \/ a.Saison = b.Saison /\ a.Round = b.Round
        /\ a.Points_Cum = b.Points_Cum /\ a.GD_Cum > b.GD_Cum

SortRanking(t) ==
    StableSort(t, [i \in DOMAIN t |-> [j \in DOMAIN t |->
                        LessRanking(t[i], t[j])]])

\* Faulty variant: competition ranking, rows level on points and goal
\* difference share a rank.
ClassementShared(t, i) ==
    Cardinality({j \in DOMAIN t :
                    /\ t[j].Saison = t[i].Saison /\ t[j].Round = t[i].Round
                    /\ \/ DescNullable(t[j].Points_Cum, t[i].Points_Cum)
                       \/ t[j].Points_Cum = t[i].Points_Cum
                            /\ t[j].GD_Cum > t[i].GD_Cum}) + 1

\* groupby(['Saison', 'Round']).cumcount() + 1
Classement(t, i) ==
    Cardinality({j \in 1..(i - 1) :
                    t[j].Saison = t[i].Saison /\ t[j].Round = t[i].Round}) + 1

AddClassement(t) ==
    Table([i \in DOMAIN t |-> t[i] @@ [Classement |-> Classement(t, i)]])

(***************************************************************************)
(* preprocess: head-to-head history.                                        *)
(***************************************************************************)
MatchIDOf(r) == r.equipe \o "_" \o r.Opponent

\* Result.apply(lambda x: 1 if x == 'W' else 0), and so on.
IsWin(result) == IF result = "W" THEN Num(1) ELSE Num(0)

IsDraw(result) == IF result = "D" THEN Num(1) ELSE Num(0)

IsLoss(result) == IF result = "L" THEN Num(1) ELSE Num(0)

\* groupby('MatchID').cumcount()
Past_Matches(t, i) ==
    Cardinality({j \in 1..(i - 1) : t[j].MatchID = t[i].MatchID})

\* groupby('MatchID')[outcome_cols].cumsum()
CumSumMatchID(t, i, col) ==
    CumSumNullable(t, {j \in 1..i : t[j].MatchID = t[i].MatchID}, i, col)

AddHistory(t) ==
    LET u == Table([i \in DOMAIN t |->
                      t[i] @@ [MatchID |-> MatchIDOf(t[i]),
                               IsWin   |-> IsWin(t[i].Result),
                               IsDraw  |-> IsDraw(t[i].Result),
                               IsLoss  |-> IsLoss(t[i].Result)]])
    IN  Table([i \in DOMAIN u |->
                 u[i] @@ [Past_Matches     |-> Past_Matches(u, i),
                          CumulativeWins   |-> CumSumMatchID(u, i, "IsWin"),
                          CumulativeDraws  |-> CumSumMatchID(u, i, "IsDraw"),
                          CumulativeLosses |-> CumSumMatchID(u, i, "IsLoss")]])

LessSaisonEquipeDateTime(a, b) ==
    \/ SaisonLt(a.Saison, b.Saison)
    \/ a.Saison = b.Saison /\ StrLt(a.equipe, b.equipe)
    \/ a.Saison = b.Saison /\ a.equipe = b.equipe
        /\ DateTimeLt(a.DateTime, b.DateTime)

SortSaisonEquipeDateTime(t) ==
    StableSort(t, [i \in DOMAIN t |-> [j \in DOMAIN t |->
                        LessSaisonEquipeDateTime(t[i], t[j])]])

\* The table as it stands right before the ranking sort.
BeforeRanking(t) ==
    AddCumulative(SortSaisonRoundEquipe(AddDerived(KeepLigue1(NormaliseNames(t)))))

preprocess(t) ==
    SortSaisonEquipeDateTime(AddHistory(AddClassement(SortRanking(BeforeRanking(t)))))

(***************************************************************************)
(* preparation_model: lagged and averaged features.                         *)
(***************************************************************************)
\* Index of the row that precedes row i in its group, 0 when there is none
\* (groupby(...).shift(1)).
\* Faulty variant: no shift, the lag is the row's own value.
PrevSaisonEquipeNoShift(t, i) == i

PrevSaisonEquipe(t, i) ==
    LET g == {j \in 1..(i - 1) :
                t[j].Saison = t[i].Saison /\ t[j].equipe = t[i].equipe}
    IN  IF g = {} THEN 0 ELSE Max(g)

PrevEquipe(t, i) ==
    LET g == {j \in 1..(i - 1) : t[j].equipe = t[i].equipe}
    IN  IF g = {} THEN 0 ELSE Max(g)

\* Faulty variant: no shift, the lagged history includes the row's own match.
PrevMatchIDNoShift(t, i) == i

PrevMatchID(t, i) ==
    LET g == {j \in 1..(i - 1) : t[j].MatchID = t[i].MatchID}
    IN  IF g = {} THEN 0 ELSE Max(g)

\* The shifted value of a column without missing values.
Shifted(t, p, col) == IF p = 0 THEN NaN ELSE Num(t[p][col])

\* The shifted value of a nullable column.
ShiftedNullable(t, p, col) == IF p = 0 THEN NaN ELSE t[p][col]

\* Columns whose name starts with one of the statistic prefixes ('Poss_', ...).
stat_columns == {"Poss_x"}

\* Faulty variant: x.expanding(), the window includes row i itself.
ExpandingWindowNoShift(t, i) ==
    {j \in 1..i : t[j].Saison = t[i].Saison /\ t[j].equipe = t[i].equipe}

\* x.shift(1).expanding(): the rows of the group strictly before row i.
ExpandingWindow(t, i) ==
    {j \in 1..(i - 1) : t[j].Saison = t[i].Saison /\ t[j].equipe = t[i].equipe}

\* x.shift(1).expanding().mean(): <<sum, count>> stands for sum / count.
MoyenneLag(t, i, col) ==
    LET w == ExpandingWindow(t, i)
    IN  IF w = {} THEN NaN
        ELSE <<SumSet(w, [j \in DOMAIN t |-> t[j][col]]), Cardinality(w)>>

AddLags(t) ==
    Table([i \in DOMAIN t |->
        t[i] @@ [Points_Cum_Lag1 |->
                     ShiftedNullable(t, PrevSaisonEquipe(t, i), "Points_Cum"),
                 GD_Cum_Lag1 |-> Shifted(t, PrevSaisonEquipe(t, i), "GD_Cum"),
                 GF_Cum_Lag1 |-> Shifted(t, PrevSaisonEquipe(t, i), "GF_Cum"),
                 GA_Cum_Lag1 |-> Shifted(t, PrevSaisonEquipe(t, i), "GA_Cum"),
                 Classement_Lag1 |-> Shifted(t, PrevEquipe(t, i), "Classement"),
                 CumulativeWins_Lag1 |->
                     ShiftedNullable(t, PrevMatchID(t, i), "CumulativeWins"),
                 CumulativeDraws_Lag1 |->
                     ShiftedNullable(t, PrevMatchID(t, i), "CumulativeDraws"),
                 CumulativeLosses_Lag1 |->
                     ShiftedNullable(t, PrevMatchID(t, i), "CumulativeLosses"),
                 Moyenne_Poss_x_Lag |-> MoyenneLag(t, i, "Poss_x")]])

\* df.drop(stat_columns, axis=1)
DropStatColumns(t) ==
    Table([i \in DOMAIN t |-> [c \in (DOMAIN t[i]) \ stat_columns |-> t[i][c]]])

preparation_model(t) ==
    SortSaisonEquipeDateTime(DropStatColumns(AddLags(SortSaisonRoundEquipe(t))))

(***************************************************************************)
(* Scraped input.  One row per team and match; a team plays one match per   *)
(* (season, round) and one match at a time.                                 *)
(***************************************************************************)
RawRow(dt, comp, label, eq, opp, outcome, poss) ==
    [DateTime |-> dt, Comp |-> comp, Round |-> label, equipe |-> eq,
     Opponent |-> opp, Result |-> outcome[1], GF |-> outcome[2],
     GA |-> outcome[3], Poss_x |-> poss]

Matchweek(n) == <<"Matchweek", " ", DigitChars[n + 1]>>

\* A result the scraper could not read.
Unreadable == <<"?", 0, 0>>

OtherTeam(eq) == IF eq = "Lyon" THEN "PSG" ELSE "Lyon"

\* Two teams over the first two rounds of one season.
RowsStandings ==
    {RawRow(<<2021, 8 + n>>, "Ligue 1", Matchweek(n), eq, OtherTeam(eq), o, 1) :
        n \in {1, 2}, eq \in {"Lyon", "PSG"},
        o \in {<<"W", 2, 0>>, <<"W", 1, 0>>, <<"L", 0, 1>>, Unreadable}}

\* One team over three rounds of a season and the first round of the next.
LagCalendar ==
    {<<1, <<2020, 8>>>>, <<2, <<2020, 12>>>>, <<3, <<2021, 5>>>>,
     <<1, <<2021, 8>>>>}

RowsLags ==
    {RawRow(c[2], "Ligue 1", Matchweek(c[1]), "PSG", "Lyon", o, poss) :
        c \in LagCalendar, o \in {<<"W", 1, 0>>, <<"D", 0, 0>>},
        poss \in {1, 2}}

\* One team against two opponents; a round may be played at any date of the
\* season (postponed matches).
RowsHistory ==
    {RawRow(<<2021, m>>, "Ligue 1", Matchweek(n), "PSG", opp, o, 1) :
        m \in {9, 10, 11}, n \in {1, 2, 3}, opp \in {"Lyon", "Marseille"},
        o \in {<<"W", 1, 0>>, <<"L", 0, 1>>}}

\* League and cup rows, team names in scraped and canonical spelling.
RowsNormalizer ==
    {RawRow(<<2021, 8 + n>>, "Ligue 1", Matchweek(n), eq,
            IF eq = "Lyon" THEN "Paris SG" ELSE "Lyon", <<"D", 1, 1>>, 1) :
        n \in {1, 2}, eq \in {"Lyon", "PSG", "Paris SG"}}
    \cup
    {RawRow(<<2021, 11>>, "Coupe de France",
            <<"Quarter", "-", "finals">>,
            eq, IF eq = "Lyon" THEN "Paris SG" ELSE "Lyon", <<"W", 1, 0>>, 1) :
        eq \in {"Lyon", "PSG", "Paris SG"}}

Scenarios == {"standings", "lags", "history", "normalizer"}

Rows(s) ==
    CASE s = "standings"  -> RowsStandings
      [] s = "lags"       -> RowsLags
      [] s = "history"    -> RowsHistory
      [] s = "normalizer" -> RowsNormalizer

SameMatchSlot(a, b) ==
    \/ MapName(a.equipe) = MapName(b.equipe) /\ a.DateTime = b.DateTime
    \/ /\ IsLigue1(a) /\ IsLigue1(b)
       /\ MapName(a.equipe) = MapName(b.equipe)
       /\ SaisonOf(a.DateTime) = SaisonOf(b.DateTime)
       /\ ExtractRound(a.Round) = ExtractRound(b.Round)

(***************************************************************************)
(* The program: the scraped table grows row by row, then preprocess and     *)
(* preparation_model run on it.                                             *)
(***************************************************************************)
Init ==
    /\ scenario \in Scenarios
    /\ raw = <<>>
    /\ df = <<>>
    /\ pc = "scraped"
    /\ dataframe_final = <<>>
    /\ dataframe_classement = <<>>
    /\ merge_pc = "loaded"

AddRow ==
    /\ pc = "scraped"
    /\ Len(raw) < MaxRows
    /\ \E r \in Rows(scenario) :
        /\ \A i \in DOMAIN raw : ~SameMatchSlot(raw[i], r)
        /\ raw' = Append(raw, r)
    /\ UNCHANGED <<scenario, df, pc, dataframe_final, dataframe_classement,
                   merge_pc>>

Preprocess ==
    /\ pc = "scraped"
    /\ df' = preprocess(raw)
    /\ pc' = "preprocessed"
    /\ UNCHANGED <<scenario, raw, dataframe_final, dataframe_classement, merge_pc>>

PreparationModel ==
    /\ pc = "preprocessed"
    /\ df' = preparation_model(df)
    /\ pc' = "prepared"
    /\ UNCHANGED <<scenario, raw, dataframe_final, dataframe_classement, merge_pc>>

Next == AddRow \/ Preprocess \/ PreparationModel

Spec == Init /\ [][Next]_vars

(***************************************************************************)
(* dataframe_final.py: ranks of the home and away team looked up in the     *)
(* standings table, which has one column J<i> per round i in JColumns.      *)
(* A row of dataframe_classement holds its J columns in the function J.     *)
(***************************************************************************)
JColumns == {1, 2}

glossaire == [n \in {"Paris SG", "OL"} |-> IF n = "OL" THEN "Lyon" ELSE "PSG"]

\* Series.replace(glossaire)
ReplaceGlossaire(t) ==
    [i \in DOMAIN t |->
        [t[i] EXCEPT !.Equipes =
            IF @ \in DOMAIN glossaire THEN glossaire[@] ELSE @]]

\* The rows a left merge produces for one left row: one per matching right
\* row, in the right table's order, or one with missing values.
RECURSIVE MergeRow(_, _, _, _)
MergeRow(l, right, col, k) ==
    IF k > Len(right) THEN <<>>
    ELSE (IF right[k].Saison = l.Saison /\ right[k].Equipes = l[col]
          THEN <<[Journee |-> l.Journee,
                  J |-> [c \in JColumns |-> Num(right[k].J[c])]]>>
          ELSE <<>>)
         \o MergeRow(l, right, col, k + 1)

RECURSIVE MergeLeft(_, _, _, _)
MergeLeft(left, right, col, i) ==
    IF i > Len(left) THEN <<>>
    ELSE LET m == MergeRow(left[i], right, col, 1)
         IN  (IF m = <<>>
              THEN <<[Journee |-> left[i].Journee,
                      J |-> [c \in JColumns |-> NaN]]>>
              ELSE m)
             \o MergeLeft(left, right, col, i + 1)

\* range(1, max(Journee) + 1)
JourneeRange(merged) == 1..Max({merged[i].Journee : i \in DOMAIN merged})

\* np.select(conditions, valeurs): the value of the first condition that
\* holds, and the default 0 when none does.
NpSelect(m, rng) ==
    IF m.Journee \in rng THEN m.J[m.Journee] ELSE Num(0)

\* One merge-and-select step: the error it raises, or "ok" and the column.
Lookup(left, right, col) ==
    LET merged == MergeLeft(left, right, col, 1)
    IN  IF left = <<>> THEN [err |-> "ValueError", column |-> <<>>]
        ELSE IF \E i \in JourneeRange(merged) : i \notin JColumns
             THEN [err |-> "KeyError", column |-> <<>>]
        ELSE IF JourneeRange(merged) = {} \/ Len(merged) # Len(left)
             THEN [err |-> "ValueError", column |-> <<>>]
        ELSE [err |-> "ok",
              column |-> [i \in DOMAIN merged |->
                            NpSelect(merged[i], JourneeRange(merged))]]

Saisons == {"2020-2021", "2021-2022"}

MatchRows ==
    {[Saison |-> s, Domicile |-> d, Exterieur |-> OtherTeam(d), Journee |-> j] :
        s \in Saisons, d \in {"Lyon", "PSG"}, j \in {1, 2, 3}}

StandingRows ==
    {[Saison |-> s, Equipes |-> e, J |-> js] :
        s \in Saisons, e \in {"Lyon", "PSG", "Paris SG"},
        js \in {<<1, 2>>, <<2, 1>>}}

InitMerge ==
    /\ scenario = "merge"
    /\ raw = <<>>
    /\ df = <<>>
    /\ pc = "idle"
    /\ dataframe_final = <<>>
    /\ dataframe_classement = <<>>
    /\ merge_pc = "loaded"

\* A row of dataframe_résultats.csv.
AddMatch ==
    /\ merge_pc = "loaded"
    /\ Len(dataframe_final) < MaxMatchRows
    /\ \E r \in MatchRows : dataframe_final' = Append(dataframe_final, r)
    /\ UNCHANGED <<scenario, raw, df, pc, dataframe_classement, merge_pc>>

\* A row of dataframe_classements.csv.
AddStanding ==
    /\ merge_pc = "loaded"
    /\ Len(dataframe_classement) < MaxStandingRows
    /\ \E r \in StandingRows :
        dataframe_classement' = Append(dataframe_classement, r)
    /\ UNCHANGED <<scenario, raw, df, pc, dataframe_final, merge_pc>>

\* The script from line 20 on.
RunMerge ==
    /\ merge_pc = "loaded"
    /\ LET right == ReplaceGlossaire(dataframe_classement)
           dom   == Lookup(dataframe_final, right, "Domicile")
           ext   == Lookup(dataframe_final, right, "Exterieur")
       IN  /\ dataframe_classement' = right
           /\ IF dom.err # "ok"
              THEN /\ merge_pc' = dom.err
                   /\ UNCHANGED dataframe_final
              ELSE /\ merge_pc' = IF ext.err = "ok" THEN "done" ELSE ext.err
                   /\ dataframe_final' =
                        [i \in DOMAIN dataframe_final |->
                            dataframe_final[i]
                              @@ [Classement_Domicile |-> dom.column[i]]
                              @@ (IF ext.err = "ok"
                                  THEN [Classement_Exterieur |-> ext.column[i]]
                                  ELSE <<>>)]
    /\ UNCHANGED <<scenario, raw, df, pc>>

NextMerge == AddMatch \/ AddStanding \/ RunMerge

SpecMerge == InitMerge /\ [][NextMerge]_vars

(***************************************************************************)
(* Properties of preprocess.                                                *)
(***************************************************************************)
Rounds(t) == {<<t[i].Saison, t[i].Round>> : i \in DOMAIN t}

InRound(t, sr) == {i \in DOMAIN t : <<t[i].Saison, t[i].Round>> = sr}

SameRound(a, b) == a.Saison = b.Saison /\ a.Round = b.Round

SameTeamSeason(a, b) == a.Saison = b.Saison /\ a.equipe = b.equipe

\* C3: in the output of preprocess the ranks assigned within a (season,
\* round) are exactly 1..n, n the number of rows of that round: no rank is
\* shared and none is skipped.
C3_RankTotality ==
    pc = "preprocessed" =>
        \A sr \in Rounds(df) :
            /\ {df[i].Classement : i \in InRound(df, sr)}
                    = 1..Cardinality(InRound(df, sr))
            /\ \A i, j \in InRound(df, sr) :
                    df[i].Classement = df[j].Classement => i = j

\* Two teams in one round, level on points and goal difference.
C3_Witness ==
    /\ pc = "preprocessed"
    /\ \E i, j \in DOMAIN df :
        /\ i # j /\ SameRound(df[i], df[j])
        /\ df[i].Points_Cum = df[j].Points_Cum /\ df[i].GD_Cum = df[j].GD_Cum

\* Position of the row of team and round r in table t.
PosIn(t, r) ==
    CHOOSE i \in DOMAIN t :
        t[i].Saison = r.Saison /\ t[i].Round = r.Round /\ t[i].equipe = r.equipe

Ahead(a, b) ==
    \/ ~IsNaN(a.Points_Cum) /\ ~IsNaN(b.Points_Cum)
        /\ Val(a.Points_Cum) > Val(b.Points_Cum)
    \/ a.Points_Cum = b.Points_Cum /\ a.GD_Cum > b.GD_Cum

Level(a, b) == a.Points_Cum = b.Points_Cum /\ a.GD_Cum = b.GD_Cum

\* C4: within a (season, round) a row with more cumulative points, or the
\* same points and a greater cumulative goal difference, has the lower rank;
\* of two rows level on both, the one that stood first before the ranking
\* sort has the lower rank.
C4_RankOrder ==
    pc = "preprocessed" =>
        LET before == BeforeRanking(raw)
        IN  \A i, j \in DOMAIN df :
                SameRound(df[i], df[j]) =>
                    /\ Ahead(df[i], df[j]) => df[i].Classement < df[j].Classement
                    /\ (Level(df[i], df[j])
                            /\ PosIn(before, df[i]) < PosIn(before, df[j]))
                        => df[i].Classement < df[j].Classement

\* Two teams of one round level on points and goal difference.
C4_Witness ==
    /\ pc = "preprocessed"
    /\ \E i, j \in DOMAIN df :
        /\ i # j /\ SameRound(df[i], df[j]) /\ Level(df[i], df[j])
        /\ ~IsNaN(df[i].Points_Cum)
        /\ PosIn(BeforeRanking(raw), df[i]) < PosIn(BeforeRanking(raw), df[j])

\* C5: within a (season, team) the cumulative points never decrease as the
\* round increases (over the rows where they are defined), and on the team's
\* first row of a season they equal that row's own points.
C5_CumulativePoints ==
    pc = "preprocessed" =>
        \A i \in DOMAIN df :
            /\ \A j \in DOMAIN df :
                (/\ SameTeamSeason(df[i], df[j]) /\ df[i].Round < df[j].Round
                 /\ ~IsNaN(df[i].Points_Cum) /\ ~IsNaN(df[j].Points_Cum))
                    => Val(df[i].Points_Cum) <= Val(df[j].Points_Cum)
            /\ (\A j \in DOMAIN df :
                    SameTeamSeason(df[i], df[j]) => df[i].Round <= df[j].Round)
                => df[i].Points_Cum = df[i].Points

\* A team that took points in one season and starts the next one.
C5_Witness ==
    /\ pc = "preprocessed"
    /\ \E i, j, k \in DOMAIN df :
        /\ SameTeamSeason(df[i], df[j]) /\ df[i].Round < df[j].Round
        /\ df[i].Points_Cum = Num(3) /\ df[j].Points_Cum = Num(4)
        /\ df[k].equipe = df[i].equipe /\ SaisonLt(df[i].Saison, df[k].Saison)
        /\ df[k].Points_Cum = Num(1)

Malformed(r) == r.Result \notin {"W", "D", "L"}

\* C9 as stated: a row whose Result is not W, D or L has missing points and
\* missing win, draw and loss indicators.
C9_IndicatorsMissing ==
    pc = "preprocessed" =>
        \A i \in DOMAIN df :
            Malformed(df[i]) =>
                /\ IsNaN(df[i].Points)
                /\ IsNaN(df[i].IsWin) /\ IsNaN(df[i].IsDraw)
                /\ IsNaN(df[i].IsLoss)

\* C9 amended: a row whose Result is not W, D or L has missing points, and
\* its win, draw and loss indicators are all 0.
C9_PointsMissingIndicatorsZero ==
    pc = "preprocessed" =>
        \A i \in DOMAIN df :
            Malformed(df[i]) =>
                /\ IsNaN(df[i].Points) /\ IsNaN(df[i].Points_Cum)
                /\ df[i].IsWin = Num(0) /\ df[i].IsDraw = Num(0)
                /\ df[i].IsLoss = Num(0)

\* A malformed row after a well-formed one of the same team and season.
C9_Witness ==
    /\ pc = "preprocessed"
    /\ \E i, j \in DOMAIN df :
        /\ Malformed(df[i]) /\ ~Malformed(df[j])
        /\ SameTeamSeason(df[i], df[j]) /\ df[j].Round < df[i].Round

\* The rows of the pair of row i with a strictly earlier timestamp, and its
\* rows with a given result up to and including the timestamp of row i.
EarlierMeetings(i) ==
    {j \in DOMAIN df :
        df[j].MatchID = df[i].MatchID
            /\ DateTimeLt(df[j].DateTime, df[i].DateTime)}

MeetingsUpTo(i, result) ==
    {j \in DOMAIN df :
        /\ df[j].MatchID = df[i].MatchID
        /\ ~DateTimeLt(df[i].DateTime, df[j].DateTime)
        /\ df[j].Result = result}

\* C6 as stated: the head-to-head history of a pair is accumulated in
\* timestamp order: Past_Matches counts the pair's rows with a strictly
\* earlier DateTime, and the cumulative wins, draws and losses count the
\* results of the pair's rows up to and including the row's DateTime.
C6_HistoryInTimestampOrder ==
    pc = "preprocessed" =>
        \A i \in DOMAIN df :
            /\ df[i].Past_Matches = Cardinality(EarlierMeetings(i))
            /\ df[i].CumulativeWins = Num(Cardinality(MeetingsUpTo(i, "W")))
            /\ df[i].CumulativeDraws = Num(Cardinality(MeetingsUpTo(i, "D")))
            /\ df[i].CumulativeLosses = Num(Cardinality(MeetingsUpTo(i, "L")))

(***************************************************************************)
(* Properties of preparation_model.                                         *)
(***************************************************************************)
\* The rows of the same team and season with a strictly earlier round.
PriorRows(t, i) ==
    {j \in DOMAIN t : SameTeamSeason(t[j], t[i]) /\ t[j].Round < t[i].Round}

\* The row of the immediately preceding round among them.
Preceding(t, i) ==
    CHOOSE j \in PriorRows(t, i) :
        \A k \in PriorRows(t, i) : t[k].Round <= t[j].Round

\* C2 as stated: Classement_Lag1 is the team's rank in the immediately
\* preceding round of the same season, and is missing on the team's first
\* row of every season.
C2_RankLagWithinSeason ==
    pc = "prepared" =>
        \A i \in DOMAIN df :
            df[i].Classement_Lag1 =
                IF PriorRows(df, i) = {} THEN NaN
                ELSE Num(df[Preceding(df, i)].Classement)

\* C7: each of the four lagged cumulative columns holds the value of its
\* column on the team's row of the immediately preceding round of the same
\* season, and is missing on the team's first row of a season.
C7_CumulativeLags ==
    pc = "prepared" =>
        \A i \in DOMAIN df :
            IF PriorRows(df, i) = {}
            THEN /\ IsNaN(df[i].Points_Cum_Lag1) /\ IsNaN(df[i].GD_Cum_Lag1)
                 /\ IsNaN(df[i].GF_Cum_Lag1) /\ IsNaN(df[i].GA_Cum_Lag1)
            ELSE LET p == df[Preceding(df, i)]
                 IN  /\ df[i].Points_Cum_Lag1 = p.Points_Cum
                     /\ df[i].GD_Cum_Lag1 = Num(p.GD_Cum)
                     /\ df[i].GF_Cum_Lag1 = Num(p.GF_Cum)
                     /\ df[i].GA_Cum_Lag1 = Num(p.GA_Cum)

\* Three cumulative points after one round and four after the next, then
\* the first row of the following season.
C7_Witness ==
    /\ pc = "prepared"
    /\ \E i, k \in DOMAIN df :
        /\ df[i].Points_Cum = Num(4) /\ df[i].Points_Cum_Lag1 = Num(3)
        /\ df[i].GF_Cum_Lag1 = Num(1)
        /\ df[k].equipe = df[i].equipe /\ SaisonLt(df[i].Saison, df[k].Saison)
        /\ IsNaN(df[k].Points_Cum_Lag1)

\* The normalised key of a scraped row, and the row of a table with a key.
KeyOfRaw(r) == <<SaisonOf(r.DateTime), ExtractRound(r.Round), MapName(r.equipe)>>

KeyOf(r) == <<r.Saison, r.Round, r.equipe>>

RowOfKey(t, k) == t[CHOOSE i \in DOMAIN t : KeyOf(t[i]) = k]

\* The statistic scraped for the match of row r.
ScrapedPoss(r) ==
    raw[CHOOSE i \in DOMAIN raw :
            IsLigue1(raw[i]) /\ KeyOfRaw(raw[i]) = KeyOf(r)].Poss_x

\* C8: the lagged average of a statistic is the arithmetic mean of the
\* statistic over the team's rows of the same season with a strictly
\* earlier round, and is missing on the team's first match of a season.
C8_MoyenneLag ==
    pc = "prepared" =>
        \A i \in DOMAIN df :
            LET prior == PriorRows(df, i)
                m     == df[i].Moyenne_Poss_x_Lag
            IN  IF prior = {} THEN IsNaN(m)
                ELSE /\ ~IsNaN(m)
                     /\ m[1] * Cardinality(prior)
                            = m[2] * SumSet(prior, [j \in DOMAIN df |->
                                                        ScrapedPoss(df[j])])

\* A third round whose two earlier rounds had different statistics.
C8_Witness ==
    /\ pc = "prepared"
    /\ \E i \in DOMAIN df : df[i].Moyenne_Poss_x_Lag = <<3, 2>>
    /\ \E i \in DOMAIN df : df[i].Moyenne_Poss_x_Lag = <<2, 1>>

\* The outcome of row i of the scraped table replaced by another one.
AltOutcomes ==
    {<<<<"W", 2, 0>>, 3>>, <<<<"L", 0, 1>>, 1>>, <<Unreadable, 2>>}

WithOutcome(t, i, alt) ==
    [t EXCEPT ![i] = [@ EXCEPT !.Result = alt[1][1], !.GF = alt[1][2],
                               !.GA = alt[1][3], !.Poss_x = alt[2]]]

\* The columns that hold the row's own outcome or a same-round value
\* derived from it.
OutcomeColumns ==
    {"Result", "GF", "GA", "GD", "Points", "IsWin", "IsDraw", "IsLoss",
     "Points_Cum", "GD_Cum", "GF_Cum", "GA_Cum", "Classement",
     "CumulativeWins", "CumulativeDraws", "CumulativeLosses"}

PreMatchPart(r) == [c \in (DOMAIN r) \ OutcomeColumns |-> r[c]]

\* C1 as stated: changing only a row's own outcome changes no retained
\* column of that row in the output of preparation_model.
C1_NoRetainedColumnLeaks ==
    pc = "prepared" =>
        \A i \in DOMAIN raw : \A alt \in AltOutcomes :
            IsLigue1(raw[i]) =>
                RowOfKey(preparation_model(preprocess(WithOutcome(raw, i, alt))),
                         KeyOfRaw(raw[i]))
                    = RowOfKey(df, KeyOfRaw(raw[i]))

\* C1 amended: changing only a row's own outcome changes no retained column
\* of that row other than the outcome columns themselves (Result, GF, GA,
\* GD, Points, the indicators, the cumulative columns, Classement and the
\* cumulative head-to-head counts): every lagged column, every lagged
\* average and Past_Matches are unchanged.
C1_LaggedColumnsDoNotLeak ==
    pc = "prepared" =>
        \A i \in DOMAIN raw : \A alt \in AltOutcomes :
            IsLigue1(raw[i]) =>
                PreMatchPart(RowOfKey(
                    preparation_model(preprocess(WithOutcome(raw, i, alt))),
                    KeyOfRaw(raw[i])))
                    = PreMatchPart(RowOfKey(df, KeyOfRaw(raw[i])))

\* A row with a lagged cumulative, a lagged average and a lagged history.
C1_Witness ==
    /\ pc = "prepared"
    /\ \E i \in DOMAIN df :
        /\ ~IsNaN(df[i].Points_Cum_Lag1)
        /\ ~IsNaN(df[i].Moyenne_Poss_x_Lag)
        /\ ~IsNaN(df[i].CumulativeWins_Lag1)
        /\ df[i].Past_Matches > 0

(***************************************************************************)
(* Properties of the standings merge.                                       *)
(***************************************************************************)
StandingsOf(saison, team) ==
    {k \in DOMAIN dataframe_classement :
        /\ dataframe_classement[k].Saison = saison
        /\ dataframe_classement[k].Equipes = team}

\* The rank an exact (season, team, round) lookup finds, missing when there
\* is no such standings row or no column for the round.
ExactLookup(m, team) ==
    IF StandingsOf(m.Saison, team) = {} \/ m.Journee \notin JColumns
    THEN NaN
    ELSE Num(dataframe_classement[
                CHOOSE k \in StandingsOf(m.Saison, team) : TRUE].J[m.Journee])

OneStandingPerTeam ==
    \A k, l \in DOMAIN dataframe_classement :
        (/\ dataframe_classement[k].Saison = dataframe_classement[l].Saison
         /\ dataframe_classement[k].Equipes = dataframe_classement[l].Equipes)
            => k = l

\* C10 as stated: once the script has run on a table of matches (and a
\* standings table with one row per season and team) it has not failed, and
\* the home and away rank of every match are the exact lookup, missing when
\* the team has no standings row or the round has no column.
C10_ExactLookupOrMissing ==
    (merge_pc # "loaded" /\ dataframe_final # <<>> /\ OneStandingPerTeam) =>
        /\ merge_pc = "done"
        /\ \A i \in DOMAIN dataframe_final :
            LET m == dataframe_final[i]
            IN  /\ m.Classement_Domicile = ExactLookup(m, m.Domicile)
                /\ m.Classement_Exterieur = ExactLookup(m, m.Exterieur)

====
